---- MODULE Spec2Model ----
(***************************************************************************)
(* State-machine model of cli.js (imagemin-cli): the top-level dispatch    *)
(* (lines 125-134), run() (lines 68-123), requirePlugins (lines 52-66)     *)
(* and runSingle (lines 105-122), together with the promise callbacks they *)
(* register.  The imagemin library, globby and the plugins are external;   *)
(* they are modelled by the interface the spec gives for them.             *)
(***************************************************************************)
EXTENDS Naturals, Integers, Sequences, FiniteSets, TLC

----------------------------------------------------------------------------
(* Bounds *)

MaxFiles == 2      \* at most this many files are matched by the input patterns
ByteMod  == 3      \* file contents are abstracted to one value in 0..ByteMod-1

----------------------------------------------------------------------------
(* Values *)

Bytes  == 0 .. (ByteMod - 1)
NoDir   == ""                     \* opts.outDir not given (falsy in JS)
OutDirs == {"out", "a"}           \* values of --out-dir: a fresh directory, an input directory
Files   == { [dir |-> "a", base |-> "x.png"],
             [dir |-> "a", base |-> "y.png"],
             [dir |-> "b", base |-> "x.png"] }
Paths   == Files \cup { [dir |-> d, base |-> f.base] : d \in OutDirs, f \in Files }
StdinItem == [dir |-> "", base |-> "<stdin>"]

Ord(p) == CASE p = [dir |-> "a", base |-> "x.png"] -> 0
            [] p = [dir |-> "a", base |-> "y.png"] -> 1
            [] OTHER -> 2

\* path.dirname, path.basename, path.join on a (directory, file name) pair
dirname(p)  == p.dir
basename(p) == p.base
join(d, b)  == [dir |-> d, base |-> b]

DEFAULT_PLUGINS == << "gifsicle", "jpegtran", "optipng", "svgo" >>

\* the imagemin-<name> packages that require() can load
Installed == {"gifsicle", "jpegtran", "optipng", "svgo", "pngquant"}

\* values of the --plugin flag: absent, one string, or an array of strings
PluginAbsent   == [kind |-> "absent", str |-> "", arr |-> << >>]
PluginStr(s)   == [kind |-> "string", str |-> s, arr |-> << >>]
PluginArr(a)   == [kind |-> "array", str |-> "", arr |-> a]
PluginFlags == { PluginAbsent,
                 PluginStr("optipng"),
                 PluginStr("nope"),
                 PluginArr(<< "gifsicle", "jpegtran" >>),
                 PluginArr(<< "jpegtran", "gifsicle" >>),
                 PluginArr(<< "jpegtran", "nope" >>),
                 PluginArr(<< "nope", "nada" >>) }

\* arrify(x)
arrify(v) == CASE v.kind = "string" -> << v.str >>
               [] v.kind = "array"  -> v.arr
               [] OTHER             -> << >>

\* variant: the default list overrides the flag
EffectivePlugin_AlwaysDefault(v) == PluginArr(DEFAULT_PLUGINS)

\* Object.assign({plugin: DEFAULT_PLUGINS}, opts).plugin
EffectivePlugin(v) == IF v.kind = "absent" THEN PluginArr(DEFAULT_PLUGINS) ELSE v

----------------------------------------------------------------------------
(* Plugins: bytes -> bytes.  Stand-ins for the external transformations;    *)
(* optipng is the identity, the others do not commute with one another.    *)

PluginFn(name, b) ==
    CASE name = "gifsicle" -> (b + 1) % ByteMod
      [] name = "jpegtran" -> (2 * b) % ByteMod
      [] name = "optipng"  -> b
      [] name = "svgo"     -> (b + 2) % ByteMod
      [] OTHER             -> (2 * b + 1) % ByteMod

RECURSIVE ApplyChain(_, _)
ApplyChain(use, b) ==
    IF use = << >> THEN b ELSE ApplyChain(Tail(use), PluginFn(Head(use), b))

----------------------------------------------------------------------------
(* requirePlugins (lines 52-66): maps each name to a handle, in order; the  *)
(* first name that cannot be loaded is reported and ends the process.      *)

Handle(x) == [plugin |-> x]

FirstUnknown(names) ==
    LET unk == { i \in 1 .. Len(names) : names[i] \notin Installed }
    IN  IF unk = {} THEN 0 ELSE CHOOSE i \in unk : \A j \in unk : i <= j

\* variant: a name that cannot be loaded is skipped instead of reported
requirePlugins_SkipUnknown(names) ==
    LET RECURSIVE keep(_)
        keep(ns) == IF ns = << >> THEN << >>
                    ELSE IF Head(ns) \in Installed
                         THEN << Handle(Head(ns)) >> \o keep(Tail(ns))
                         ELSE keep(Tail(ns))
    IN  [ok |-> TRUE, use |-> keep(names), unknown |-> ""]

\* variant: the handles come back in reverse order
requirePlugins_Reversed(names) ==
    LET k == FirstUnknown(names)
    IN  IF k = 0
        THEN [ok |-> TRUE,
              use |-> [i \in 1 .. Len(names) |-> Handle(names[Len(names) + 1 - i])],
              unknown |-> ""]
        ELSE [ok |-> FALSE, use |-> << >>, unknown |-> names[k]]

requirePlugins(names) ==
    LET k == FirstUnknown(names)
    IN  IF k = 0
        THEN [ok |-> TRUE, use |-> [i \in 1 .. Len(names) |-> Handle(names[i])],
              unknown |-> ""]
        ELSE [ok |-> FALSE, use |-> << >>, unknown |-> names[k]]

RECURSIVE RunChain(_, _)
RunChain(use, b) ==
    IF use = << >> THEN b ELSE RunChain(Tail(use), PluginFn(Head(use).plugin, b))

----------------------------------------------------------------------------
(* State *)

VARIABLES
    cli,        \* parsed command line: hasInput, files matched, outDir, write, plugin
    env,        \* isTTY, stdinBuf, bad (inputs a plugin fails on), onUnhandled
    phase,      \* "main" | "stdin" (getStdin pending) | "run" (run() was called)
    alive,      \* the process has not ended
    exitCode,   \* process exit status (meaningful once the process has ended)
    use,        \* the resolved plugin chain of run()
    globbing,   \* the globby() call of line 84 is pending
    calls,      \* the imagemin calls made so far, in call order
    runAll,     \* state of the runAll promise chain (lines 83-98)
    disk,       \* file contents by path
    stdout,     \* what was written to standard output, in order
    stderr,     \* what was written to standard error, in order
    unhandled   \* number of promise rejections nobody handled

vars == << cli, env, phase, alive, exitCode, use, globbing, calls, runAll, disk,
           stdout, stderr, unhandled >>

Truthy(s) == s # ""

\* imagemin(input, output, {use}) / imagemin.buffer(input, {use}): one call
NewCall(role, input, outDir) ==
    [role |-> role, input |-> input, outDir |-> outDir,
     st |-> [f \in input |-> "queued"],
     data |-> << >>,
     settled |-> "pending"]

\* destination of a transformed file inside imagemin
Dest(output, f) == join(output, basename(f))

ItemFinal(c, f) ==
    IF Truthy(c.outDir) THEN c.st[f] = "written" ELSE c.st[f] = "transformed"

Fails(c, f) ==
    IF c.role = "buffer" THEN env.stdinBad ELSE f \in env.bad

Data(b)    == [kind |-> "data", val |-> b, text |-> ""]
plur(word, n) == IF n = 1 THEN word ELSE word \o "s"
Summary(n) == [kind |-> "summary", val |-> n, text |-> plur("image", n) \o " minified"]
ErrMsg(m, a) == [msg |-> m, arg |-> a]

\* contents of the input files when the process starts
Content0(p) == (env.stdinBuf + Ord(p)) % ByteMod

Init ==
    /\ \E hasInput \in BOOLEAN, fs \in SUBSET Files, o \in {NoDir} \cup OutDirs,
          w \in BOOLEAN, p \in PluginFlags :
          /\ Cardinality(fs) <= MaxFiles
          /\ ~hasInput => fs = {}
          /\ cli = [hasInput |-> hasInput, files |-> fs, outDir |-> o,
                    write |-> w, plugin |-> p]
    /\ \E tty \in BOOLEAN, buf \in Bytes, bad \in SUBSET cli.files,
          sb \in BOOLEAN, u \in {"warn", "throw"} :
          /\ cli.hasInput => (tty /\ ~sb)
          /\ env = [isTTY |-> tty, stdinBuf |-> buf, bad |-> bad, stdinBad |-> sb,
                    onUnhandled |-> u]
    /\ disk = [p \in cli.files |-> Content0(p)]
    /\ phase = "main"
    /\ alive = TRUE
    /\ exitCode = 0
    /\ use = << >>
    /\ globbing = FALSE
    /\ calls = << >>
    /\ runAll = "none"
    /\ stdout = << >>
    /\ stderr = << >>
    /\ unhandled = 0

----------------------------------------------------------------------------
(* Effects of synchronous code and of promise callbacks.  An effect names  *)
(* what a run-to-completion piece of JavaScript does to the process.       *)

NoEffect == [out |-> << >>, err |-> << >>, exit |-> FALSE, unh |-> 0, chain |-> "same"]

\* a rejection that reaches the end of a promise chain with no handler
Unhandled(reason) ==
    [NoEffect EXCEPT !.err = << ErrMsg("Unhandled rejection", reason) >>,
                     !.unh = 1,
                     !.exit = (env.onUnhandled = "throw")]

Apply(e) ==
    /\ stdout' = stdout \o e.out
    /\ stderr' = stderr \o e.err
    /\ alive' = ~e.exit
    /\ exitCode' = IF e.exit THEN 1 ELSE exitCode
    /\ unhandled' = unhandled + e.unh
    /\ runAll' = IF e.chain = "same" THEN runAll ELSE e.chain

\* variant: the check for several files without an output directory is missing
runSingleThen_NoMultiCheck(c) ==
    LET n == Cardinality(c.input)
        first == CHOOSE f \in c.input : TRUE
    IN  IF ~Truthy(c.outDir) /\ n = 0 THEN NoEffect
        ELSE IF ~Truthy(c.outDir)
        THEN [NoEffect EXCEPT !.out = << Data(c.data[first]) >>]
        ELSE NoEffect

\* variant: several files without an output directory are reported, but the
\* process is not ended
runSingleThen_ReportNoExit(c) ==
    LET n == Cardinality(c.input)
        first == CHOOSE f \in c.input : TRUE
    IN  IF ~Truthy(c.outDir) /\ n = 0 THEN NoEffect
        ELSE IF ~Truthy(c.outDir) /\ n > 1
        THEN [NoEffect EXCEPT
                !.err = << ErrMsg("Cannot write multiple files to stdout, specify a --out-dir", "") >>]
        ELSE IF ~Truthy(c.outDir)
        THEN [NoEffect EXCEPT !.out = << Data(c.data[first]) >>]
        ELSE NoEffect

\* the .then callback of runSingle (lines 107-121) on the files of call c
runSingleThen(c) ==
    LET n == Cardinality(c.input)
        first == CHOOSE f \in c.input : TRUE
    IN  IF ~Truthy(c.outDir) /\ n = 0 THEN NoEffect
        ELSE IF ~Truthy(c.outDir) /\ n > 1
        THEN [NoEffect EXCEPT
                !.err = << ErrMsg("Cannot write multiple files to stdout, specify a --out-dir", "") >>,
                !.exit = TRUE]
        ELSE IF ~Truthy(c.outDir)
        THEN [NoEffect EXCEPT !.out = << Data(c.data[first]) >>]
        ELSE NoEffect

\* variant: a value that is no array is wrapped into a one-element array
\* before the summary callback runs
runAllThen_Wrapped(isArray, len) ==
    [NoEffect EXCEPT !.out = << Summary(IF isArray THEN len ELSE 1) >>,
                     !.chain = "fulfilled"]

\* the .then/.catch of lines 90-98 on the value runAll resolved with;
\* isArray: the value is an array, len: its length
runAllThen(isArray, len) ==
    IF isArray
    THEN [NoEffect EXCEPT !.out = << Summary(len) >>, !.chain = "fulfilled"]
    ELSE [Unhandled("TypeError") EXCEPT !.chain = "rejected"]

runAllCatch(reason) == [Unhandled(reason) EXCEPT !.chain = "rejected"]

\* e1 then e2, unless e1 ended the process
Then(e1, e2) ==
    IF e1.exit THEN e1
    ELSE [out |-> e1.out \o e2.out, err |-> e1.err \o e2.err, exit |-> e2.exit,
          unh |-> e1.unh + e2.unh, chain |-> e2.chain]

----------------------------------------------------------------------------
(* run(input, opts), lines 68-103: the synchronous part *)

run(isBuffer) ==
    LET opts == [cli EXCEPT !.plugin = EffectivePlugin(cli.plugin)]
        r    == requirePlugins(arrify(opts.plugin))
    IN  /\ phase' = "run"
        /\ UNCHANGED << cli, env, disk, stdout, unhandled >>
        /\ IF ~r.ok
           THEN /\ stderr' = Append(stderr, ErrMsg("Unknown plugin", r.unknown))
                /\ alive' = FALSE
                /\ exitCode' = 1
                /\ UNCHANGED << use, globbing, calls, runAll >>
           ELSE /\ use' = r.use
                /\ UNCHANGED << stderr, alive, exitCode >>
                /\ IF isBuffer
                   THEN /\ calls' = << NewCall("buffer", {StdinItem}, NoDir) >>
                        /\ UNCHANGED << globbing, runAll >>
                   ELSE IF ~opts.write
                   THEN /\ calls' = << NewCall("runAll", cli.files, opts.outDir),
                                       NewCall("extra", cli.files, opts.outDir) >>
                        /\ runAll' = "pending"
                        /\ UNCHANGED globbing
                   ELSE /\ globbing' = TRUE
                        /\ runAll' = "pending"
                        /\ UNCHANGED calls

----------------------------------------------------------------------------
(* Top level, lines 125-134 *)

MainNoInput ==
    /\ phase = "main" /\ alive
    /\ ~cli.hasInput /\ env.isTTY
    /\ stderr' = Append(stderr, ErrMsg("Specify at least one filename", ""))
    /\ alive' = FALSE
    /\ exitCode' = 1
    /\ UNCHANGED << cli, env, phase, use, globbing, calls, runAll, disk, stdout, unhandled >>

MainPaths ==
    /\ phase = "main" /\ alive
    /\ cli.hasInput
    /\ run(FALSE)

\* variant: standard input is read even when it is a terminal
MainStdin_IgnoreTTY ==
    /\ phase = "main" /\ alive
    /\ ~cli.hasInput
    /\ phase' = "stdin"
    /\ UNCHANGED << cli, env, alive, exitCode, use, globbing, calls, runAll, disk,
                    stdout, stderr, unhandled >>

MainStdin ==
    /\ phase = "main" /\ alive
    /\ ~cli.hasInput /\ ~env.isTTY
    /\ phase' = "stdin"
    /\ UNCHANGED << cli, env, alive, exitCode, use, globbing, calls, runAll, disk,
                    stdout, stderr, unhandled >>

StdinRead ==
    /\ phase = "stdin" /\ alive
    /\ run(TRUE)

----------------------------------------------------------------------------
(* globby(input, {nodir: true}).then(paths => Promise.all(...)), lines 84-88 *)

\* variant: the user's --out-dir is passed on instead of the file's directory
writeOpts_UserOutDir(x) == [outDir |-> cli.outDir]

\* the options of the runSingle call made for path x in write mode (line 86)
writeOpts(x) == [outDir |-> dirname(x)]

GlobbyDone ==
    /\ phase = "run" /\ alive
    /\ globbing
    /\ globbing' = FALSE
    /\ calls' = calls \o
          [i \in 1 .. Cardinality(cli.files) |->
             LET x == CHOOSE f \in cli.files :
                         Cardinality({g \in cli.files : Ord(g) < Ord(f)}) = i - 1
             IN  NewCall("item", {x}, writeOpts(x).outDir)]
    /\ IF cli.files = {}
       THEN Apply(runAllThen(TRUE, 0))
       ELSE UNCHANGED << stdout, stderr, alive, exitCode, unhandled, runAll >>
    /\ UNCHANGED << cli, env, phase, use, disk >>

----------------------------------------------------------------------------
(* Inside an imagemin call: each file is read and run through the plugin   *)
(* chain, then written under the output directory when there is one.       *)

Transform(i, f) ==
    /\ phase = "run" /\ alive
    /\ calls[i].st[f] = "queued"
    /\ LET c == calls[i]
           raw == IF c.role = "buffer" THEN env.stdinBuf ELSE disk[f]
       IN  calls' = [calls EXCEPT ![i] =
                IF Fails(c, f)
                THEN [c EXCEPT !.st[f] = "failed"]
                ELSE [c EXCEPT !.st[f] = "transformed",
                               !.data = (f :> RunChain(use, raw)) @@ c.data]]
    /\ UNCHANGED << cli, env, phase, alive, exitCode, use, globbing, runAll, disk, stdout,
                    stderr, unhandled >>

WriteFile(i, f) ==
    /\ phase = "run" /\ alive
    /\ calls[i].st[f] = "transformed"
    /\ Truthy(calls[i].outDir)
    /\ disk' = (Dest(calls[i].outDir, f) :> calls[i].data[f]) @@ disk
    /\ calls' = [calls EXCEPT ![i].st[f] = "written"]
    /\ UNCHANGED << cli, env, phase, alive, exitCode, use, globbing, runAll, stdout, stderr,
                    unhandled >>

----------------------------------------------------------------------------
(* Settling of an imagemin call and the callbacks chained on it *)

\* variant: the aggregate resolves as soon as one item call has resolved
allItemsResolved_AnyOne(cs) ==
    \E j \in 1 .. Len(cs) : cs[j].role = "item" /\ cs[j].settled = "resolved"

\* Promise.all over the runSingle promises of write mode (line 86), seen at
\* the moment call i resolves: it resolves once every item call has resolved
allItemsResolved(cs) ==
    \A j \in 1 .. Len(cs) : cs[j].role = "item" => cs[j].settled = "resolved"

\* variant: the buffer branch goes on to the summary of the file branch
onResolve_BufferSummary(i, cs) ==
    LET c == cs[i]
    IN  CASE c.role = "buffer" ->
               [NoEffect EXCEPT !.out = << Data(c.data[StdinItem]), Summary(1) >>]
          [] c.role = "runAll" -> Then(runSingleThen(c), runAllThen(FALSE, 0))
          [] c.role = "extra"  -> runSingleThen(c)
          [] OTHER ->
               IF runAll = "pending" /\ allItemsResolved(cs)
               THEN Then(runSingleThen(c), runAllThen(TRUE, Len(cs)))
               ELSE runSingleThen(c)

onResolve(i, cs) ==
    LET c == cs[i]
    IN  CASE c.role = "buffer" -> [NoEffect EXCEPT !.out = << Data(c.data[StdinItem]) >>]
          [] c.role = "runAll" -> Then(runSingleThen(c), runAllThen(FALSE, 0))
          [] c.role = "extra"  -> runSingleThen(c)
          [] OTHER ->
               IF runAll = "pending" /\ allItemsResolved(cs)
               THEN Then(runSingleThen(c), runAllThen(TRUE, Len(cs)))
               ELSE runSingleThen(c)

onReject(i, cs) ==
    LET c == cs[i]
    IN  CASE c.role = "buffer" -> Unhandled("plugin failed")
          [] c.role = "runAll" -> runAllCatch("plugin failed")
          [] c.role = "extra"  -> Unhandled("plugin failed")
          [] OTHER ->
               IF runAll = "pending" THEN runAllCatch("plugin failed") ELSE NoEffect

Resolve(i) ==
    /\ phase = "run" /\ alive
    /\ calls[i].settled = "pending"
    /\ \A f \in calls[i].input : ItemFinal(calls[i], f)
    /\ calls' = [calls EXCEPT ![i].settled = "resolved"]
    /\ Apply(onResolve(i, calls'))
    /\ UNCHANGED << cli, env, phase, use, globbing, disk >>

Reject(i) ==
    /\ phase = "run" /\ alive
    /\ calls[i].settled = "pending"
    /\ \E f \in calls[i].input : calls[i].st[f] = "failed"
    /\ calls' = [calls EXCEPT ![i].settled = "rejected"]
    /\ Apply(onReject(i, calls'))
    /\ UNCHANGED << cli, env, phase, use, globbing, disk >>

\* nothing is left to run: the process ends by itself
Idle ==
    /\ ~globbing
    /\ \A i \in 1 .. Len(calls) :
          /\ calls[i].settled # "pending"
          /\ \A f \in calls[i].input : ItemFinal(calls[i], f) \/ calls[i].st[f] = "failed"

Finish ==
    /\ phase = "run" /\ alive
    /\ Idle
    /\ alive' = FALSE
    /\ exitCode' = 0
    /\ UNCHANGED << cli, env, phase, use, globbing, calls, runAll, disk, stdout,
                    stderr, unhandled >>

Next ==
    \/ MainNoInput
    \/ MainPaths
    \/ MainStdin
    \/ StdinRead
    \/ GlobbyDone
    \/ \E i \in 1 .. Len(calls) : \E f \in calls[i].input : Transform(i, f)
    \/ \E i \in 1 .. Len(calls) : \E f \in calls[i].input : WriteFile(i, f)
    \/ \E i \in 1 .. Len(calls) : Resolve(i)
    \/ \E i \in 1 .. Len(calls) : Reject(i)
    \/ Finish

Spec == Init /\ [][Next]_vars

\* every pending asynchronous operation eventually completes
FairSpec == Spec /\ WF_vars(Next)

TypeOK ==
    /\ phase \in {"main", "stdin", "run"}
    /\ alive \in BOOLEAN
    /\ exitCode \in {0, 1}
    /\ alive => exitCode = 0
    /\ globbing \in BOOLEAN
    /\ runAll \in {"none", "pending", "fulfilled", "rejected"}
    /\ unhandled \in 0 .. 2
    /\ DOMAIN disk \subseteq Paths
    /\ \A p \in DOMAIN disk : disk[p] \in Bytes

----------------------------------------------------------------------------
(* Vocabulary of the properties *)

Names      == arrify(EffectivePlugin(cli.plugin))
PluginsOK  == \A k \in 1 .. Len(Names) : Names[k] \in Installed
Exited     == ~alive
NFiles     == Cardinality(cli.files)
FileInput  == cli.hasInput
StdoutMode == FileInput /\ ~cli.write /\ ~Truthy(cli.outDir)
OutDirMode == FileInput /\ ~cli.write /\ Truthy(cli.outDir)
WriteMode  == FileInput /\ cli.write
AllValid   == env.bad = {}
Expected(f) == ApplyChain(Names, Content0(f))

InStdout(e) == \E k \in 1 .. Len(stdout) : stdout[k] = e
InStderr(e) == \E k \in 1 .. Len(stderr) : stderr[k] = e
DataWrites  == { k \in 1 .. Len(stdout) : stdout[k].kind = "data" }
SummaryWrites == { k \in 1 .. Len(stdout) : stdout[k].kind = "summary" }

\* the (call, file) pairs dispatched so far
Items == { << i, f >> \in (1 .. Len(calls)) \X (Files \cup {StdinItem}) :
              f \in calls[i].input }
Started(f) == { i \in 1 .. Len(calls) : f \in calls[i].input /\ calls[i].st[f] # "queued" }
Delivered(f) == \E i \in 1 .. Len(calls) : f \in calls[i].input /\ ItemFinal(calls[i], f)
\* a dispatched item that will still write a file
Writer(it) ==
    /\ Truthy(calls[it[1]].outDir)
    /\ calls[it[1]].st[it[2]] \in {"queued", "transformed"}
MultiMsg == ErrMsg("Cannot write multiple files to stdout, specify a --out-dir", "")

----------------------------------------------------------------------------
(* C1 *)

C1Case == StdoutMode /\ NFiles = 1 /\ AllValid /\ PluginsOK

\* C1: one valid file, no --out-dir, no --write, plugins succeed: standard
\* output receives the plugin chain's output for that file exactly once and
\* nothing else, so at every moment it is empty or that single write, and it
\* is that single write when the process has ended.
C1_StdoutExactlyOnce ==
    C1Case =>
       LET f == CHOOSE g \in cli.files : TRUE
       IN  /\ stdout \in { << >>, << Data(Expected(f)) >> }
           /\ (Exited => stdout = << Data(Expected(f)) >>)

----------------------------------------------------------------------------
(* C2 *)

C2Case == StdoutMode /\ NFiles >= 2 /\ AllValid /\ PluginsOK

\* C2: two or more valid files, no --out-dir, no --write: in every
\* interleaving nothing is ever written to standard output, the process can
\* only end with status 1, and it does end with status 1.
C2_MultiStdoutExits1 ==
    /\ [](C2Case => (stdout = << >> /\ (Exited => exitCode = 1)))
    /\ [](C2Case => <>(exitCode = 1 /\ InStderr(MultiMsg)))

C2_Witness ==
    /\ C2Case /\ exitCode = 1 /\ InStderr(MultiMsg) /\ stdout = << >>
    /\ \E i \in 1 .. Len(calls) :
          /\ calls[i].settled = "pending"
          /\ \E f \in calls[i].input : calls[i].st[f] = "transformed"

----------------------------------------------------------------------------
(* C3 *)

C3Case == OutDirMode /\ AllValid /\ PluginsOK

\* C3: in --out-dir mode with every item transforming successfully, the run
\* prints the summary line for N = number of items before it ends.
C3_OutDirSummary ==
    (C3Case /\ Exited) => InStdout(Summary(NFiles))

----------------------------------------------------------------------------
(* C4 *)

C4Case == FileInput /\ PluginsOK /\ AllValid /\ ~(StdoutMode /\ NFiles >= 2)

\* C4: file input, every item succeeds, no configuration error: no rejection
\* is left unhandled and the process can only end with status 0.
C4_SuccessExits0 ==
    C4Case => (unhandled = 0 /\ (Exited => exitCode = 0))

----------------------------------------------------------------------------
(* C5 *)

C5Case == WriteMode /\ AllValid /\ PluginsOK

\* C5: in --write mode with all transforms succeeding, whatever the order in
\* which the calls complete: every call targets its file's own directory,
\* a written file lands on its own path with the chain's output, no other
\* path is written, the only thing printed is the summary, and when the
\* process has ended every matched file was written and the summary
\* counts exactly the matched files.
C5_WriteInPlace ==
    C5Case =>
       /\ \A it \in Items :
             /\ calls[it[1]].outDir = dirname(it[2])
             /\ calls[it[1]].st[it[2]] = "written" => disk[it[2]] = Expected(it[2])
       /\ DOMAIN disk = cli.files
       /\ stdout \in { << >>, << Summary(NFiles) >> }
       /\ Exited =>
             /\ \A f \in cli.files :
                   \E i \in 1 .. Len(calls) :
                      f \in calls[i].input /\ calls[i].st[f] = "written"
             /\ stdout = << Summary(NFiles) >>

C5_Witness ==
    /\ C5Case /\ NFiles = 2 /\ Exited /\ exitCode = 0
    /\ stdout = << Summary(2) >>
    /\ \E f \in cli.files : disk[f] # Content0(f)

----------------------------------------------------------------------------
(* C6 *)

Disk0 == [p \in cli.files |-> Content0(p)]

\* run() has started no transform, glob expansion, file access or output
NothingStarted ==
    calls = << >> /\ ~globbing /\ stdout = << >> /\ disk = Disk0 /\ runAll = "none"

\* C6: once run() has been entered with a plugin list holding a name that
\* cannot be resolved, the process has exited with status 1, standard error
\* holds exactly one "Unknown plugin" diagnostic, naming the name whose
\* resolution failed (the first unresolvable name of the list; resolution
\* stops there), and run() has started no transform, glob expansion, file
\* access or output.
C6_UnknownPluginFatal ==
    (phase = "run" /\ ~PluginsOK) =>
       /\ exitCode = 1
       /\ \E k \in 1 .. Len(Names) :
             /\ Names[k] \notin Installed
             /\ \A j \in 1 .. (k - 1) : Names[j] \in Installed
             /\ stderr = << ErrMsg("Unknown plugin", Names[k]) >>
       /\ NothingStarted

C6_Witness ==
    /\ phase = "run" /\ exitCode = 1
    /\ Len(Names) = 2 /\ Names[1] \in Installed /\ Names[2] \notin Installed
    /\ stderr = << ErrMsg("Unknown plugin", Names[2]) >>

----------------------------------------------------------------------------
(* C7 *)

C7Case ==
    /\ (WriteMode \/ OutDirMode) /\ PluginsOK
    /\ NFiles >= 2 /\ Cardinality(env.bad) = 1

\* C7: in a batch of two or more items where one item's plugin chain fails,
\* when the process has ended every sibling item was transformed and
\* delivered to its sink and the summary was emitted.
C7_SiblingsDeliveredAndSummary ==
    (C7Case /\ Exited) =>
       /\ \A f \in cli.files \ env.bad : Delivered(f)
       /\ SummaryWrites # {}

----------------------------------------------------------------------------
(* C8 *)

C8Case ==
    /\ phase = "run" /\ PluginsOK
    /\ (env.bad # {} \/ env.stdinBad)
    /\ ~(StdoutMode /\ NFiles >= 2)

\* C8: when the only errors of a run are plugin failures on individual
\* items, no rejection is left unhandled and the process can only end with
\* status 0.
C8_PluginFailureNotFatal ==
    C8Case => (unhandled = 0 /\ (Exited => exitCode = 0))

----------------------------------------------------------------------------
(* C9 *)

\* C9: with file input, in every sink mode, at most one transform is ever
\* started per input item, and exactly one has been started for each item
\* when the process ends normally.
C9_TransformedExactlyOnce ==
    FileInput =>
       \A f \in cli.files :
          /\ Cardinality(Started(f)) <= 1
          /\ ((Exited /\ exitCode = 0) => Cardinality(Started(f)) = 1)

----------------------------------------------------------------------------
(* C10 *)

\* C10: there are never two outstanding writers (dispatched items that will
\* still write a file) with the same destination path.
C10_NoWriteWriteConflict ==
    \A a \in Items : \A b \in Items :
       (a # b /\ Writer(a) /\ Writer(b)) =>
          Dest(calls[a[1]].outDir, a[2]) # Dest(calls[b[1]].outDir, b[2])

----------------------------------------------------------------------------
(* C11 *)

\* every dispatched transform/delivery invocation has settled
AllSettled ==
    /\ ~globbing
    /\ \A i \in 1 .. Len(calls) :
          /\ calls[i].settled = "resolved"
          /\ \A f \in calls[i].input : ItemFinal(calls[i], f)

\* C11: join barrier: in every state in which the summary line has been
\* written, every invocation dispatched by the run has settled, none is
\* still outstanding, and the summary was written only once.
C11_JoinBarrier ==
    SummaryWrites # {} => (AllSettled /\ Cardinality(SummaryWrites) = 1)

C11_Witness ==
    /\ WriteMode /\ NFiles = 2 /\ alive
    /\ SummaryWrites # {} /\ AllSettled /\ Len(calls) = 2

----------------------------------------------------------------------------
(* C12 *)

C12Case == FileInput /\ NFiles = 0 /\ PluginsOK /\ (cli.write \/ Truthy(cli.outDir))

\* C12: zero files matched and a file sink selected (--write or --out-dir):
\* when the process has ended it has printed exactly "0 images minified"
\* and its exit status is 0.
C12_ZeroMatchesSummary ==
    (C12Case /\ Exited) => (stdout = << Summary(0) >> /\ exitCode = 0)

----------------------------------------------------------------------------
(* C13 *)

C13Case == StdoutMode /\ NFiles = 0 /\ PluginsOK

\* C13: zero items and neither --out-dir nor --write: nothing is ever
\* written to standard output, no error is reported or propagated, and the
\* process can only end with status 0.
C13_ZeroItemsStdoutSilent ==
    C13Case =>
       /\ stdout = << >>
       /\ stderr = << >>
       /\ unhandled = 0
       /\ (Exited => exitCode = 0)

----------------------------------------------------------------------------
(* C14 *)

C14Case == StdoutMode /\ NFiles = 1 /\ PluginsOK

\* C14: one file, no --out-dir, no --write: at every point of the run every
\* entry written to standard output is a write of transformed image bytes
\* (the plugin chain's output for the file); no summary and no diagnostic
\* text is ever written there.
C14_StdoutOnlyImageBytes ==
    C14Case =>
       \A k \in 1 .. Len(stdout) :
          \E f \in cli.files : stdout[k] = Data(Expected(f))

C14_Witness ==
    /\ C14Case /\ stdout # << >>
    /\ InStderr(ErrMsg("Unhandled rejection", "TypeError"))

----------------------------------------------------------------------------
(* C15 *)

C15Case == ~FileInput /\ phase = "run" /\ PluginsOK

\* C15: with the piped buffer as input, whatever --out-dir and --write are:
\* run() makes exactly one call, a transform over the buffer; no glob
\* expansion is started and no file is read or written; no summary is
\* printed; standard output holds nothing or the single write of the
\* transformed buffer, and holds that write when the transform succeeded
\* and the process has ended.
C15_BufferOneTransform ==
    C15Case =>
       /\ Len(calls) = 1
       /\ calls[1].role = "buffer" /\ calls[1].input = {StdinItem}
       /\ ~Truthy(calls[1].outDir)
       /\ ~globbing /\ runAll = "none"
       /\ DOMAIN disk = {}
       /\ SummaryWrites = {}
       /\ stdout \in { << >>, << Data(ApplyChain(Names, env.stdinBuf)) >> }
       /\ (calls[1].settled = "pending" => stdout = << >>)
       /\ ((Exited /\ ~env.stdinBad) => stdout = << Data(ApplyChain(Names, env.stdinBuf)) >>)

C15_Witness ==
    /\ C15Case /\ Exited /\ exitCode = 0
    /\ cli.write /\ Truthy(cli.outDir)
    /\ stdout = << Data(ApplyChain(Names, env.stdinBuf)) >>

----------------------------------------------------------------------------
(* C16 *)

\* the plugin names the command line asks for, in order
ExpectedNames ==
    CASE cli.plugin.kind = "absent" -> << "gifsicle", "jpegtran", "optipng", "svgo" >>
      [] cli.plugin.kind = "string" -> << cli.plugin.str >>
      [] OTHER                      -> cli.plugin.arr
ExpectedOK == \A k \in 1 .. Len(ExpectedNames) : ExpectedNames[k] \in Installed

\* every configured plugin is the identity transform
IdentityChain ==
    /\ ExpectedOK
    /\ \A k \in 1 .. Len(ExpectedNames) :
          \A b \in Bytes : PluginFn(ExpectedNames[k], b) = b

C16Case == ~FileInput /\ phase = "run" /\ IdentityChain /\ ~env.stdinBad

\* C16: round trip on stdin: when every configured plugin is the identity,
\* standard output never holds anything but the input buffer, written once,
\* and holds exactly that when the process has ended.
C16_StdinRoundTrip ==
    C16Case =>
       /\ stdout \in { << >>, << Data(env.stdinBuf) >> }
       /\ (Exited => stdout = << Data(env.stdinBuf) >>)

C16_Witness ==
    /\ C16Case /\ Exited /\ env.stdinBuf # 0
    /\ stdout = << Data(env.stdinBuf) >>

----------------------------------------------------------------------------
(* C17 *)

\* the bytes an item's transform read: the piped buffer, or the file as it
\* was when the process started
Raw(f) == IF f = StdinItem THEN env.stdinBuf ELSE Content0(f)

\* no input file can have been overwritten before a transform reads it
SourcesIntact == ~(OutDirMode /\ cli.outDir \in { dirname(f) : f \in cli.files })

\* C17: once run() has resolved the plugins, the chain is one handle per
\* requested name in the requested order (the default list gifsicle,
\* jpegtran, optipng, svgo when --plugin is absent); every transformed item
\* carries that chain applied in that order to the bytes read; and the
\* chain never changes afterwards, so it is the same for every item.
C17_ChainIsNameListInOrder ==
    /\ []((phase = "run" /\ ExpectedOK) =>
             /\ use = [k \in 1 .. Len(ExpectedNames) |-> Handle(ExpectedNames[k])]
             /\ SourcesIntact =>
                   \A it \in Items :
                      calls[it[1]].st[it[2]] \in {"transformed", "written"} =>
                         calls[it[1]].data[it[2]] = ApplyChain(ExpectedNames, Raw(it[2])))
    /\ [][phase = "run" => use' = use]_vars

C17_Witness ==
    /\ phase = "run" /\ cli.plugin = PluginArr(<< "jpegtran", "gifsicle" >>)
    /\ NFiles = 2 /\ SourcesIntact
    /\ \A f \in cli.files :
          \E i \in 1 .. Len(calls) :
             /\ f \in calls[i].input /\ calls[i].st[f] = "transformed"
             /\ calls[i].data[f] = ApplyChain(<< "jpegtran", "gifsicle" >>, Content0(f))
    /\ \E f \in cli.files :
          ApplyChain(<< "jpegtran", "gifsicle" >>, Content0(f))
             # ApplyChain(<< "gifsicle", "jpegtran" >>, Content0(f))

----------------------------------------------------------------------------
(* C18 *)

ConfigErrorReported ==
    \E k \in 1 .. Len(stderr) :
       stderr[k].msg \in { "Unknown plugin", MultiMsg.msg }

\* C18: a configuration error is terminal: in every state in which "Unknown
\* plugin" or "Cannot write multiple files to stdout" has been reported the
\* process has ended with status 1, and from such a state no step of the
\* run changes anything: no plugin invocation, stdout write, file write or
\* summary follows, whatever calls are still outstanding.
C18_ConfigErrorTerminal ==
    /\ [](ConfigErrorReported => (~alive /\ exitCode = 1))
    /\ [][ConfigErrorReported => UNCHANGED vars]_vars

C18_Witness ==
    /\ InStderr(MultiMsg) /\ ~alive /\ exitCode = 1
    /\ \E i \in 1 .. Len(calls) :
          /\ calls[i].settled = "pending"
          /\ \E f \in calls[i].input : calls[i].st[f] = "queued"

----------------------------------------------------------------------------
(* C19 *)

C19Case == ~cli.hasInput /\ env.isTTY

NoFilenameMsg == ErrMsg("Specify at least one filename", "")

\* C19: no positional input and standard input is a terminal: run() is
\* never called (no plugin resolved, no call dispatched), standard input is
\* never read, and the process can only end with status 1 after reporting
\* "Specify at least one filename" on standard error.
C19_NoInputOnTTY ==
    C19Case =>
       /\ phase = "main"
       /\ use = << >> /\ calls = << >> /\ ~globbing /\ runAll = "none"
       /\ stdout = << >>
       /\ IF alive THEN stderr = << >>
                   ELSE exitCode = 1 /\ stderr = << NoFilenameMsg >>

C19_Witness ==
    C19Case /\ ~alive /\ exitCode = 1 /\ stderr = << NoFilenameMsg >>

----------------------------------------------------------------------------
(* C20 *)

C20Case == WriteMode /\ Truthy(cli.outDir)

\* C20 as stated: with file input, --write and an --out-dir: every call
\* targets its file's own directory, no written file lies under the
\* --out-dir directory, and the multiple-files-to-stdout error is never
\* reported.
C20_NothingUnderOutDir ==
    C20Case =>
       /\ \A it \in Items :
             /\ calls[it[1]].outDir = dirname(it[2])
             /\ calls[it[1]].st[it[2]] = "written" =>
                   Dest(calls[it[1]].outDir, it[2]).dir # cli.outDir
       /\ ~InStderr(MultiMsg)

\* C20 amended: with file input, --write and an --out-dir: every call
\* targets its file's own directory, every written file lands on its own
\* path, so no path is created and the only files written under the
\* --out-dir directory are matched files that already lie in it, and the
\* multiple-files-to-stdout error is never reported.
C20_WriteIgnoresOutDir ==
    C20Case =>
       /\ \A it \in Items :
             /\ calls[it[1]].outDir = dirname(it[2])
             /\ Dest(calls[it[1]].outDir, it[2]) = it[2]
       /\ DOMAIN disk = cli.files
       /\ ~InStderr(MultiMsg)

C20_Witness ==
    /\ C20Case /\ cli.outDir = "out" /\ NFiles = 2 /\ Exited
    /\ \A f \in cli.files :
          \E i \in 1 .. Len(calls) : f \in calls[i].input /\ calls[i].st[f] = "written"

====
